---- MODULE Spec2Model ----
(***************************************************************************)
(* SnowflakeAdapter (plugins/snowflake/dbt/adapters/snowflake/impl.py):    *)
(* schema-change detection, relation-identifier normalisation and the      *)
(* warehouse switching hooks, as state machines over the live database.    *)
(***************************************************************************)
EXTENDS Integers, Sequences, FiniteSets, TLC

\* Python's None, distinct from every string the program handles.
None == "<None>"

\* ------------------------------------------------------------------------
\* Bounds of the model.

\* Largest number of columns a relation of the modelled database has.
MaxCols == 2

\* Longest database, schema or identifier name handed to _make_match_kwargs.
MaxStrLen == 2

\* Characters of those names: a lower-case letter, an upper-case letter and
\* a character without case.
Alphabet == {"a", "B", "_"}

\* Column names and database-reported type descriptors of the modelled database.
ColumnNames == {"id", "name", "email"}
DataTypes == {"NUMBER(38,0)", "VARCHAR(10)"}

\* The two relations handed to has_schema_changed.
Relations == {"tmp", "tgt"}

\* Failures the macro dispatcher can raise from a column fetch.
FetchFaults == {"DatabaseException", "CompilationException"}

\* ------------------------------------------------------------------------
\* Values.

Column == [name : ColumnNames, data_type : DataTypes]

\* Column lists a database reports: the names of one relation are unique.
ColumnLists ==
    UNION {{cols \in [1..n -> Column] :
               \A i, j \in 1..n : i # j => cols[i].name # cols[j].name}
           : n \in 0..MaxCols}

\* Outcome of a call: a returned value or a raised exception.
Return(v) == [kind |-> "return", value |-> v]
Raise(e) == [kind |-> "raise", exc |-> e]

Returned(r, v) == r.kind = "return" /\ r.value = v
Raised(r, e) == r.kind = "raise" /\ r.exc = e

VARIABLES
    db,         \* relation -> the column list the database reports for it
    hsc,        \* the last has_schema_changed invocation and its outcome
    quoting,    \* self.config.quoting: the three quoting flags of the run
    mk,         \* the last _make_match_kwargs invocation and its outcome
    default_warehouse,  \* self.config.credentials.warehouse
    active,     \* session -> the warehouse current_warehouse() reports
    run         \* session -> the model execution in progress on it

vars == <<db, hsc, quoting, mk, default_warehouse, active, run>>

\* ------------------------------------------------------------------------
\* Schema diff engine.

\* {c.name: c for c in columns}: keyed by name, the last column of a name wins.
DictByName(cols) ==
    [n \in {cols[i].name : i \in DOMAIN cols} |->
        LET last == CHOOSE i \in DOMAIN cols :
                        /\ cols[i].name = n
                        /\ \A j \in DOMAIN cols : cols[j].name = n => j <= i
        IN  cols[last]]

\* d.keys, the attribute read without a call: the bound method of the dict d.
KeysAttr(d) == [type |-> "builtin_function_or_method", self |-> d]

\* len(obj): the number of keys of a dict; a method object has no length.
PyLen(obj) ==
    IF obj.type = "dict"
    THEN Return(Cardinality(DOMAIN obj.self))
    ELSE Raise("TypeError")

\* self.get_columns_in_relation(relation): what the macro reports, or its failure.
get_columns_in_relation(relation, fault) ==
    IF fault # None THEN Raise(fault) ELSE Return(db[relation])

\* The two loops of has_schema_changed, after the count check.
CompareColumns(reference_columns, target_columns) ==
    IF \E n \in DOMAIN reference_columns :
           \/ n \notin DOMAIN target_columns
           \/ reference_columns[n].data_type # target_columns[n].data_type
    THEN Return(TRUE)
    ELSE IF \E n \in DOMAIN target_columns : n \notin DOMAIN reference_columns
    THEN Return(TRUE)
    ELSE Return(FALSE)

\* The count check, evaluated left to right, then the loops.
CountCheck(reference_columns, target_columns) ==
    LET nref == PyLen(KeysAttr(reference_columns)) IN
    IF nref.kind = "raise" THEN nref
    ELSE LET ntgt == PyLen(KeysAttr(target_columns)) IN
         IF ntgt.kind = "raise" THEN ntgt
         ELSE IF nref.value # ntgt.value THEN Return(TRUE)
         ELSE CompareColumns(reference_columns, target_columns)

\* A has_schema_changed that answers "unchanged" when a column fetch fails.
has_schema_changed_swallow(temp_relation, target_relation, faultRef, faultTgt) ==
    LET ref == get_columns_in_relation(temp_relation, faultRef)
        tgt == get_columns_in_relation(target_relation, faultTgt)
    IN  IF ref.kind = "raise" \/ tgt.kind = "raise"
        THEN [result |-> Return(FALSE),
              fetches |-> <<temp_relation, target_relation>>]
        ELSE [result |-> CountCheck(DictByName(ref.value), DictByName(tgt.value)),
              fetches |-> <<temp_relation, target_relation>>]

\* has_schema_changed(temp_relation, target_relation): its outcome and the
\* relations it fetched, in order.
has_schema_changed(temp_relation, target_relation, faultRef, faultTgt) ==
    LET ref == get_columns_in_relation(temp_relation, faultRef) IN
    IF ref.kind = "raise"
    THEN [result |-> ref, fetches |-> <<temp_relation>>]
    ELSE LET tgt == get_columns_in_relation(target_relation, faultTgt) IN
         IF tgt.kind = "raise"
         THEN [result |-> tgt, fetches |-> <<temp_relation, target_relation>>]
         ELSE [result |-> CountCheck(DictByName(ref.value), DictByName(tgt.value)),
               fetches |-> <<temp_relation, target_relation>>]

\* No has_schema_changed call made yet.
HscIdle ==
    [called |-> FALSE, temp |-> "tmp", target |-> "tgt",
     faultRef |-> None, faultTgt |-> None,
     result |-> [kind |-> "none"], fetches |-> <<>>]

\* One call of has_schema_changed on the relations drawn in the initial state,
\* its column fetches answered as drawn there.
HasSchemaChanged ==
    LET out == has_schema_changed(hsc.temp, hsc.target, hsc.faultRef, hsc.faultTgt)
    IN  /\ hsc' = [hsc EXCEPT !.called = TRUE,
                              !.result = out.result,
                              !.fetches = out.fetches]
        /\ UNCHANGED <<db, quoting, mk, default_warehouse, active, run>>

\* ------------------------------------------------------------------------
\* Identifier normaliser.

\* Names are sequences of characters.  A field that is None is the one-element
\* sequence <<None>>, which is no name over Alphabet.
Names == UNION {[1..n -> Alphabet] : n \in 0..MaxStrLen}
NoName == <<None>>
Fields == Names \cup {NoName}

\* str.upper(), character by character.
UpperChar(c) == CASE c = "a" -> "A" [] c = "b" -> "B" [] OTHER -> c
Upper(s) == [i \in DOMAIN s |-> UpperChar(s[i])]

\* dbt.utils.filter_null_values: the mapping without its None-valued keys.
filter_null_values(d) == [k \in {k \in DOMAIN d : d[k] # NoName} |-> d[k]]

\* A _make_match_kwargs that folds the schema by the identifier's quoting flag.
make_match_kwargs_wrong_flag(database, schema, identifier) ==
    LET identifier1 == IF identifier # NoName /\ quoting["identifier"] = FALSE
                       THEN Upper(identifier) ELSE identifier
        schema1 == IF schema # NoName /\ quoting["identifier"] = FALSE
                   THEN Upper(schema) ELSE schema
        database1 == IF database # NoName /\ quoting["database"] = FALSE
                     THEN Upper(database) ELSE database
    IN  filter_null_values(
            [identifier |-> identifier1, schema |-> schema1, database |-> database1])

\* _make_match_kwargs(database, schema, identifier)
make_match_kwargs(database, schema, identifier) ==
    LET identifier1 == IF identifier # NoName /\ quoting["identifier"] = FALSE
                       THEN Upper(identifier) ELSE identifier
        schema1 == IF schema # NoName /\ quoting["schema"] = FALSE
                   THEN Upper(schema) ELSE schema
        database1 == IF database # NoName /\ quoting["database"] = FALSE
                     THEN Upper(database) ELSE database
    IN  filter_null_values(
            [identifier |-> identifier1, schema |-> schema1, database |-> database1])

\* One call of _make_match_kwargs on the arguments drawn in the initial state.
MakeMatchKwargs ==
    /\ mk' = [mk EXCEPT !.called = TRUE,
                        !.out = make_match_kwargs(mk.database, mk.schema, mk.identifier)]
    /\ UNCHANGED <<db, hsc, quoting, default_warehouse, active, run>>

MkIdle ==
    [called |-> FALSE, database |-> NoName, schema |-> NoName,
     identifier |-> NoName, out |-> <<>>]

\* ------------------------------------------------------------------------
\* Session context switcher.

\* Database sessions on which model executions run.
Sessions == {"s1", "s2"}

\* Warehouse names of the run's configuration and of the model configurations.
Warehouses == {"WH_A", "WH_B"}

\* A model's config mapping: without a 'warehouse' key, or with one set to
\* None or to a warehouse name.
NoKeyConfig == [k \in {} |-> None]
Configs == {NoKeyConfig} \cup {[k \in {"warehouse"} |-> w] : w \in Warehouses \cup {None}}

\* config.get(key, default)
ConfigGet(config, key, default) ==
    IF key \in DOMAIN config THEN config[key] ELSE default

\* str(value), and '{}'.format(value): None renders as the text 'None'.
Str(v) == IF v = None THEN "None" ELSE v

\* Statements sent to the session.
SelectStmt == [sql |-> "select current_warehouse() as warehouse", warehouse |-> None]
UseStmt(w) == [sql |-> "use warehouse {}", warehouse |-> Str(w)]

\* What the executor can answer to the current-warehouse query on a session:
\* one row holding the active warehouse (NULL when none is active), no rows,
\* a row without columns, or an execution fault.
QueryOutcomes(session) ==
    {Return(<< <<active[session]>> >>), Return(<<>>), Return(<< <<>> >>),
     Raise("DatabaseException")}

\* What the executor can answer to a statement without result: done, or a fault.
StatementFaults == {None, "DatabaseException"}

\* A _get_warehouse that goes on without a result row.
get_warehouse_unchecked(session, query) ==
    IF query.kind = "raise"
    THEN [result |-> query, stmts |-> <<SelectStmt>>]
    ELSE LET table == query.value IN
         IF Len(table) = 0 \/ Len(table[1]) = 0
         THEN [result |-> Return(Str(None)), stmts |-> <<SelectStmt>>]
         ELSE [result |-> Return(Str(table[1][1])), stmts |-> <<SelectStmt>>]

\* _get_warehouse(), given the executor's answer to its query.
get_warehouse(session, query) ==
    IF query.kind = "raise"
    THEN [result |-> query, stmts |-> <<SelectStmt>>]
    ELSE LET table == query.value IN
         IF Len(table) = 0 \/ Len(table[1]) = 0
         THEN [result |-> Raise("RuntimeException"), stmts |-> <<SelectStmt>>]
         ELSE [result |-> Return(Str(table[1][1])), stmts |-> <<SelectStmt>>]

\* _use_warehouse(warehouse), given the executor's answer: the statement sent
\* and the session's active warehouse afterwards.
use_warehouse(session, warehouse, fault) ==
    IF fault # None
    THEN [result |-> Raise(fault), stmts |-> <<UseStmt(warehouse)>>,
          active |-> active[session]]
    ELSE [result |-> Return(None), stmts |-> <<UseStmt(warehouse)>>,
          active |-> Str(warehouse)]

\* A pre_model_hook without the test for an unset warehouse.
pre_model_hook_no_none_test(session, config, query, fault) ==
    LET warehouse == ConfigGet(config, "warehouse", default_warehouse) IN
    IF warehouse = default_warehouse
    THEN [result |-> Return(None), stmts |-> <<>>, active |-> active[session]]
    ELSE LET previous == get_warehouse(session, query) IN
         IF previous.result.kind = "raise"
         THEN [result |-> previous.result, stmts |-> previous.stmts,
               active |-> active[session]]
         ELSE LET use == use_warehouse(session, warehouse, fault) IN
              IF use.result.kind = "raise"
              THEN [result |-> use.result, stmts |-> previous.stmts \o use.stmts,
                    active |-> use.active]
              ELSE [result |-> Return(previous.result.value),
                    stmts |-> previous.stmts \o use.stmts, active |-> use.active]

\* pre_model_hook(config) on a session: its outcome, the statements it sent
\* and the session's active warehouse afterwards.
pre_model_hook(session, config, query, fault) ==
    LET warehouse == ConfigGet(config, "warehouse", default_warehouse) IN
    IF warehouse = default_warehouse \/ warehouse = None
    THEN [result |-> Return(None), stmts |-> <<>>, active |-> active[session]]
    ELSE LET previous == get_warehouse(session, query) IN
         IF previous.result.kind = "raise"
         THEN [result |-> previous.result, stmts |-> previous.stmts,
               active |-> active[session]]
         ELSE LET use == use_warehouse(session, warehouse, fault) IN
              IF use.result.kind = "raise"
              THEN [result |-> use.result, stmts |-> previous.stmts \o use.stmts,
                    active |-> use.active]
              ELSE [result |-> Return(previous.result.value),
                    stmts |-> previous.stmts \o use.stmts, active |-> use.active]

\* post_model_hook(config, context) on a session.
post_model_hook(session, config, context, fault) ==
    IF context # None
    THEN use_warehouse(session, context, fault)
    ELSE [result |-> Return(None), stmts |-> <<>>, active |-> active[session]]

\* A model execution: idle, or between its pre_model_hook and its
\* post_model_hook ("model"), holding the token the pre_model_hook returned.
\* Kept with it: the config of the last pre_model_hook and the executor's
\* answer to its query (when it sent one),
\* the warehouse active when it was called (before), the last hook called with
\* its statements and outcome, the warehouse active at the start (initial) and
\* whether a post_model_hook has raised on the session (faulted).
RunIdle(initial) ==
    [pc |-> "idle", config |-> NoKeyConfig, token |-> None, before |-> initial,
     hook |-> "none", query |-> [kind |-> "none"], stmts |-> <<>>,
     result |-> [kind |-> "none"], initial |-> initial, faulted |-> FALSE]

\* The orchestrator starts a model execution on an idle session.
PreModelHook(session, config, query, fault) ==
    /\ run[session].pc = "idle"
    /\ LET out == pre_model_hook(session, config, query, fault) IN
       \* the executor answers only the statements that are sent
       /\ Len(out.stmts) = 0 => query = Return(<<>>)
       /\ Len(out.stmts) < 2 => fault = None
       /\ active' = [active EXCEPT ![session] = out.active]
       /\ run' = [run EXCEPT ![session] =
                    [@ EXCEPT !.pc = IF out.result.kind = "return" THEN "model" ELSE "idle",
                              !.config = config,
                              !.token = IF out.result.kind = "return"
                                        THEN out.result.value ELSE None,
                              !.before = active[session],
                              !.hook = "pre",
                              !.query = IF out.stmts = <<>>
                                        THEN [kind |-> "none"] ELSE query,
                              !.stmts = out.stmts,
                              !.result = out.result]]
    /\ UNCHANGED <<db, hsc, quoting, mk, default_warehouse>>

\* The orchestrator ends the model execution with the token of its pre_model_hook.
PostModelHook(session, fault) ==
    /\ run[session].pc = "model"
    /\ LET out == post_model_hook(session, run[session].config,
                                  run[session].token, fault) IN
       \* the executor answers only the statements that are sent
       /\ Len(out.stmts) = 0 => fault = None
       /\ active' = [active EXCEPT ![session] = out.active]
       /\ run' = [run EXCEPT ![session] =
                    [@ EXCEPT !.pc = "idle",
                              !.hook = "post",
                              !.stmts = out.stmts,
                              !.result = out.result,
                              !.faulted = @ \/ out.result.kind = "raise"]]
    /\ UNCHANGED <<db, hsc, quoting, mk, default_warehouse>>

\* ------------------------------------------------------------------------
\* Specifications.

IdleSessions == [s \in Sessions |-> RunIdle(None)]

\* has_schema_changed over every database content of the two relations, every
\* pair of arguments and every outcome of the two column fetches.
InitSchema ==
    /\ db \in [Relations -> ColumnLists]
    /\ hsc \in {[HscIdle EXCEPT !.temp = temp_relation, !.target = target_relation,
                                !.faultRef = faultRef, !.faultTgt = faultTgt] :
                  temp_relation \in Relations, target_relation \in Relations,
                  faultRef \in FetchFaults \cup {None},
                  faultTgt \in FetchFaults \cup {None}}
    /\ quoting = [identifier |-> FALSE, schema |-> FALSE, database |-> FALSE]
    /\ mk = MkIdle
    /\ default_warehouse = None
    /\ active = [s \in Sessions |-> None]
    /\ run = IdleSessions

NextSchema == HasSchemaChanged

SpecSchema == InitSchema /\ [][NextSchema]_vars

\* _make_match_kwargs over every quoting configuration and every argument triple.
InitMatch ==
    /\ db = [r \in Relations |-> <<>>]
    /\ hsc = HscIdle
    /\ quoting \in [{"identifier", "schema", "database"} -> BOOLEAN]
    /\ mk \in {[MkIdle EXCEPT !.database = d, !.schema = s, !.identifier = i] :
                  d \in Fields, s \in Fields, i \in Fields}
    /\ default_warehouse = None
    /\ active = [s \in Sessions |-> None]
    /\ run = IdleSessions

NextMatch == MakeMatchKwargs

SpecMatch == InitMatch /\ [][NextMatch]_vars

\* Model executions on the sessions, their hooks interleaved in every order.
InitHooks ==
    /\ db = [r \in Relations |-> <<>>]
    /\ hsc = HscIdle
    /\ quoting = [identifier |-> FALSE, schema |-> FALSE, database |-> FALSE]
    /\ mk = MkIdle
    /\ default_warehouse \in Warehouses \cup {None}
    /\ active \in [Sessions -> Warehouses \cup {None}]
    /\ run = [s \in Sessions |-> RunIdle(active[s])]

NextHooks ==
    \E session \in Sessions :
        \/ \E config \in Configs, fault \in StatementFaults :
               \E query \in QueryOutcomes(session) :
                   PreModelHook(session, config, query, fault)
        \/ \E fault \in StatementFaults : PostModelHook(session, fault)

SpecHooks == InitHooks /\ [][NextHooks]_vars

Init == InitSchema \/ InitMatch \/ InitHooks
Next == NextSchema \/ NextMatch \/ NextHooks
Spec == Init /\ [][Next]_vars

\* ------------------------------------------------------------------------
\* Properties of has_schema_changed (SpecSchema).

NameSet(cols) == {cols[i].name : i \in DOMAIN cols}
DataTypeOf(cols, n) == cols[CHOOSE i \in DOMAIN cols : cols[i].name = n].data_type

\* Both column fetches of the call answered, with the columns of the database.
BothFetched == hsc.called /\ hsc.faultRef = None /\ hsc.faultTgt = None
RefCols == db[hsc.temp]
TgtCols == db[hsc.target]

SameNames == NameSet(RefCols) = NameSet(TgtCols)
SameTypes == \A n \in NameSet(RefCols) \cap NameSet(TgtCols) :
                 DataTypeOf(RefCols, n) = DataTypeOf(TgtCols, n)

\* TgtCols is RefCols in some order.
Reordered ==
    /\ Len(RefCols) = Len(TgtCols)
    /\ \E p \in [DOMAIN RefCols -> DOMAIN RefCols] :
           /\ \A i, j \in DOMAIN RefCols : i # j => p[i] # p[j]
           /\ \A i \in DOMAIN RefCols : TgtCols[p[i]] = RefCols[i]

\* C1: when the two fetches report the same column names with the same
\* data_type strings, has_schema_changed completes and returns False.
C1_SameSchemaReturnsFalse ==
    (BothFetched /\ SameNames /\ SameTypes) => Returned(hsc.result, FALSE)

\* C2: when the set of column names of the reference relation differs from
\* that of the target relation, has_schema_changed returns True.
C2_DifferentNamesReturnTrue ==
    (BothFetched /\ ~SameNames) => Returned(hsc.result, TRUE)

\* C3: with the same column names in both relations, a column whose data_type
\* strings differ makes has_schema_changed return True.
C3_DifferentTypeReturnsTrue ==
    (BothFetched /\ SameNames /\ ~SameTypes) => Returned(hsc.result, TRUE)

\* C9: when the target's columns are the reference's columns in any order,
\* has_schema_changed returns False.
C9_ReorderedReturnsFalse ==
    (BothFetched /\ Reordered) => Returned(hsc.result, FALSE)

\* C6: when a column fetch fails, has_schema_changed raises that very failure,
\* returns no boolean, fetches each argument at most once and fetches nothing
\* after the failure.
C6_FetchFailurePropagates ==
    hsc.called =>
        /\ hsc.faultRef # None =>
               /\ Raised(hsc.result, hsc.faultRef)
               /\ hsc.fetches = <<hsc.temp>>
        /\ (hsc.faultRef = None /\ hsc.faultTgt # None) =>
               /\ Raised(hsc.result, hsc.faultTgt)
               /\ hsc.fetches = <<hsc.temp, hsc.target>>
        /\ (hsc.faultRef # None \/ hsc.faultTgt # None) => hsc.result.kind # "return"

\* C6 witness: the reference fetch answered, the target fetch failed.
C6_Witness ==
    /\ hsc.called
    /\ hsc.faultRef = None
    /\ hsc.faultTgt = "CompilationException"
    /\ Raised(hsc.result, "CompilationException")
    /\ hsc.fetches = <<hsc.temp, hsc.target>>

\* ------------------------------------------------------------------------
\* Properties of _make_match_kwargs (SpecMatch).

MatchFields == {"identifier", "schema", "database"}

\* C8: the keys of the result are exactly the fields that are not None; a
\* field is upper-cased when its quoting flag is False and unchanged when True.
C8_MatchKwargs ==
    mk.called =>
        /\ DOMAIN mk.out = {f \in MatchFields : mk[f] # NoName}
        /\ \A f \in DOMAIN mk.out :
               /\ ~quoting[f] => mk.out[f] = Upper(mk[f])
               /\ quoting[f] => mk.out[f] = mk[f]

\* C8 witness: an unquoted identifier folded, a quoted database kept, no schema.
C8_Witness ==
    /\ mk.called
    /\ ~quoting["identifier"] /\ quoting["database"]
    /\ mk.identifier = <<"a", "B">>
    /\ mk.database = <<"a", "_">>
    /\ mk.schema = NoName
    /\ mk.out = [identifier |-> <<"A", "B">>, database |-> <<"a", "_">>]

\* ------------------------------------------------------------------------
\* Properties of the hooks (SpecHooks).

\* The warehouse a config requests, and whether the hook has to switch to it.
Requested(config) == ConfigGet(config, "warehouse", default_warehouse)
NeedsSwitch(config) ==
    Requested(config) # None /\ Requested(config) # default_warehouse

UseStatements(stmts) == {i \in DOMAIN stmts : stmts[i].sql = "use warehouse {}"}

\* C4: a pre_model_hook that has to switch queries the active warehouse, then
\* switches, and returns the warehouse that was active; after paired hooks
\* the session is on the warehouse it was on before the first pre_model_hook.
C4_PairRestoresWarehouse ==
    \A s \in Sessions :
        /\ (run[s].hook = "pre" /\ NeedsSwitch(run[s].config)
                /\ run[s].result.kind = "return") =>
               /\ run[s].stmts = <<SelectStmt, UseStmt(Requested(run[s].config))>>
               /\ active[s] = Requested(run[s].config)
               /\ run[s].token = run[s].before
        /\ (run[s].pc = "idle" /\ ~run[s].faulted) => active[s] = run[s].initial

\* C5: when the hook has to switch and the query for the active warehouse has
\* no rows, or a first row without columns, pre_model_hook raises
\* RuntimeException, hands out no token, sends no 'use warehouse' and leaves
\* the session's active warehouse as it was.
C5_NoRowsIsFatal ==
    \A s \in Sessions :
        (run[s].hook = "pre" /\ NeedsSwitch(run[s].config)
            /\ run[s].query \in {Return(<<>>), Return(<< <<>> >>)}) =>
            /\ Raised(run[s].result, "RuntimeException")
            /\ run[s].pc = "idle"
            /\ run[s].token = None
            /\ UseStatements(run[s].stmts) = {}
            /\ active[s] = run[s].before

\* C5 witness: the query came back without rows and the hook raised.
C5_Witness ==
    \E s \in Sessions :
        /\ run[s].hook = "pre"
        /\ NeedsSwitch(run[s].config)
        /\ run[s].query = Return(<<>>)
        /\ Raised(run[s].result, "RuntimeException")
        /\ run[s].stmts = <<SelectStmt>>

\* C7: when the requested warehouse is the default one, or is unset,
\* pre_model_hook returns no token and sends nothing, the post_model_hook
\* called without a token sends nothing, and the active warehouse stays.
C7_NoSwitchIsNoOp ==
    \A s \in Sessions :
        /\ (run[s].hook = "pre" /\ ~NeedsSwitch(run[s].config)) =>
               /\ Returned(run[s].result, None)
               /\ run[s].token = None
               /\ run[s].stmts = <<>>
               /\ active[s] = run[s].before
        /\ (run[s].hook = "post" /\ run[s].token = None) =>
               /\ Returned(run[s].result, None)
               /\ run[s].stmts = <<>>
               /\ active[s] = run[s].before

\* C7 witness: a config with 'warehouse' set to None under a default
\* warehouse, both hooks done.
C7_Witness ==
    \E s \in Sessions :
        /\ run[s].hook = "post"
        /\ default_warehouse # None
        /\ run[s].config = [k \in {"warehouse"} |-> None]
        /\ run[s].token = None
        /\ run[s].stmts = <<>>
        /\ active[s] = run[s].before

\* C10: with executions interleaved on distinct sessions, a hook changes the
\* active warehouse of its own session only, and a post_model_hook that
\* completes leaves its session on the warehouse that was active there before
\* its pre_model_hook.
C10_SessionsIsolated ==
    [][\A s \in Sessions :
          run'[s] # run[s] =>
              /\ \A t \in Sessions \ {s} : active'[t] = active[t] /\ run'[t] = run[t]
              /\ (run'[s].hook = "post" /\ run'[s].result.kind = "return") =>
                     active'[s] = run[s].before]_vars

====
